---- MODULE Spec2Model ----
(***************************************************************************)
(* Model of the cargo stowage backend (src/backend.py): the items and      *)
(* containers tables, the 3D bin packer, and the request handlers          *)
(* placement, search, retrieve, place, waste identify, waste return-plan,  *)
(* complete-undocking and simulate.                                        *)
(*                                                                         *)
(* The store is the single sqlite connection of the process: a statement   *)
(* executed by a handler that later raises stays visible to every later    *)
(* handler (same connection, no rollback) and is committed by the next     *)
(* commit.  The audit log table is append-only, is never read by the       *)
(* handlers modelled here, and is left out of the state.                   *)
(*                                                                         *)
(* Coordinates and dimensions are REAL in the source; the model draws them *)
(* from small integers, on which the float arithmetic of the source is     *)
(* exact.  The packer's score 0.5*z + 0.3*x + 0.2*y - 0.1*p is compared as *)
(* 5*z + 3*x + 2*y - p; on the free-cuboid origins that the containers and *)
(* items of the catalogues below produce, the float order and the integer  *)
(* order agree.                                                            *)
(***************************************************************************)
EXTENDS Integers, Sequences, FiniteSets, TLC

\* items: the rows of the items table in rowid order; containers: the ids of
\* the rows of the containers table; today: the day datetime.utcnow() reads
VARIABLES items, containers, today

vars == <<items, containers, today>>

(* A handler is an operator of the store and the request that yields its    *)
(* response together with the rows it leaves in the items table; the action *)
(* of the handler commits those rows.  A statement about a response is a    *)
(* statement about that operator in the states the program reaches.         *)

----------------------------------------------------------------------------
(* Bounds *)

MaxBatch == 2        \* items in one placement request
MaxDay == 2          \* last value of the wall clock (utcnow), in days
MaxSimDays == 1      \* largest numOfDays of a simulate request
MaxUsage == 1        \* entries in itemsToBeUsedPerDay
MaxOveruse == 1      \* retrieve/usage is applied while remaining_uses > -MaxOveruse
MaxWeight == 4       \* largest maxWeight of a return-plan request
MaxWideBatch == 3    \* items in one placement request of the crate catalogue
MaxTallBatch == 2    \* items in one placement request of the cube-and-bar catalogue

\* SQL NULL / Python None in a nullable numeric column or optional field
NULL == -1000
\* an absent string: None, which the handlers test by truth value like ""
EMPTY == ""

----------------------------------------------------------------------------
(* Request payloads *)

\* Container(containerId, zone, width, depth, height)
ContainerCatalogue ==
  << [containerId |-> "cA", zone |-> "A", width |-> 2, depth |-> 2, height |-> 2],
     [containerId |-> "cB", zone |-> "B", width |-> 1, depth |-> 2, height |-> 1] >>

\* Item(itemId, name, width, depth, height, mass, priority, expiryDate,
\*      usageLimit, preferredZone)
ItemCatalogue ==
  << [itemId |-> "I1", name |-> "Food", width |-> 1, depth |-> 1, height |-> 1,
      mass |-> 3, priority |-> 2, expiryDate |-> NULL, usageLimit |-> 1,
      preferredZone |-> "A"],
     [itemId |-> "I2", name |-> "Food", width |-> 1, depth |-> 1, height |-> 1,
      mass |-> 2, priority |-> 1, expiryDate |-> 2, usageLimit |-> NULL,
      preferredZone |-> "A"] >>

Range(s) == {s[i] : i \in DOMAIN s}

ItemIds == {it.itemId : it \in Range(ItemCatalogue)}
ItemNames == {it.name : it \in Range(ItemCatalogue)}
ContainerIds == {c.containerId : c \in Range(ContainerCatalogue)}

\* the sequences of at most n distinct elements of S
RECURSIVE DistinctSeqs(_, _)
DistinctSeqs(S, n) ==
  IF n = 0 THEN {<<>>}
  ELSE LET shorter == DistinctSeqs(S, n - 1)
           longest == {t \in shorter : Len(t) = n - 1}
       IN shorter \cup UNION {{Append(s, e) : e \in S \ Range(s)} : s \in longest}

\* request.items: at most MaxBatch distinct items of the catalogue, any order
ItemBatches == DistinctSeqs(Range(ItemCatalogue), MaxBatch)
\* request.containers: distinct containers of the catalogue, any order
ContainerLists == DistinctSeqs(Range(ContainerCatalogue), Len(ContainerCatalogue))

\* start corners (width, depth, height) offered to manual place
PlaceStarts == {<<0, 1, 0>>, <<1, 0, 0>>}

\* A second catalogue, of crates that are not cubes: three items of equal
\* dimensions and distinct priorities, a container that holds several of them
\* and a container that holds one, rotated.
WideContainers ==
  << [containerId |-> "cW", zone |-> "A", width |-> 4, depth |-> 2, height |-> 4],
     [containerId |-> "cR", zone |-> "B", width |-> 3, depth |-> 1, height |-> 2] >>

WideItems ==
  << [itemId |-> "W1", name |-> "Crate", width |-> 2, depth |-> 1, height |-> 3,
      mass |-> 1, priority |-> 3, expiryDate |-> NULL, usageLimit |-> NULL,
      preferredZone |-> "B"],
     [itemId |-> "W2", name |-> "Crate", width |-> 2, depth |-> 1, height |-> 3,
      mass |-> 1, priority |-> 2, expiryDate |-> NULL, usageLimit |-> NULL,
      preferredZone |-> "B"],
     [itemId |-> "W3", name |-> "Crate", width |-> 2, depth |-> 1, height |-> 3,
      mass |-> 1, priority |-> 1, expiryDate |-> NULL, usageLimit |-> NULL,
      preferredZone |-> "A"] >>

WideItemIds == {it.itemId : it \in Range(WideItems)}
WideContainerIds == {c.containerId : c \in Range(WideContainers)}

WideBatches == DistinctSeqs(Range(WideItems), MaxWideBatch)
WideContainerLists == DistinctSeqs(Range(WideContainers), Len(WideContainers))

\* A third catalogue, of a cube and a bar twice as high: once the cube is
\* placed, the free cuboids of a container hold the bar in different
\* orientations.  Its containers are those of ContainerCatalogue.
TallItems ==
  << [itemId |-> "T1", name |-> "Cube", width |-> 1, depth |-> 1, height |-> 1,
      mass |-> 1, priority |-> 2, expiryDate |-> NULL, usageLimit |-> NULL,
      preferredZone |-> "A"],
     [itemId |-> "T2", name |-> "Bar", width |-> 1, depth |-> 1, height |-> 2,
      mass |-> 1, priority |-> 1, expiryDate |-> NULL, usageLimit |-> NULL,
      preferredZone |-> "A"] >>

TallItemIds == {it.itemId : it \in Range(TallItems)}

TallBatches == DistinctSeqs(Range(TallItems), MaxTallBatch)

\* start corners (width, depth, height) offered to manual place of a crate
WidePlaceStarts == {<<0, 0, 1>>, <<0, 1, 0>>}

----------------------------------------------------------------------------
(* Sequence helpers *)

RemoveAt(s, i) == SubSeq(s, 1, i - 1) \o SubSeq(s, i + 1, Len(s))

\* the elements of s that satisfy P, in the order of s
SelectRows(s, P(_)) ==
  LET f[i \in 0..Len(s)] ==
        IF i = 0 THEN <<>>
        ELSE f[i - 1] \o (IF P(s[i]) THEN <<s[i]>> ELSE <<>>)
  IN f[Len(s)]

\* stable insertion of e into the sorted sequence s: before the first
\* element that e is less than
InsertSorted(s, e, Less(_, _)) ==
  LET before == {i \in DOMAIN s : \A j \in 1..i : ~Less(e, s[j])}
      k == Cardinality(before)
  IN SubSeq(s, 1, k) \o <<e>> \o SubSeq(s, k + 1, Len(s))

\* stable sort (Python sorted, SQL ORDER BY over rowid order)
StableSort(s, Less(_, _)) ==
  LET f[i \in 0..Len(s)] ==
        IF i = 0 THEN <<>> ELSE InsertSorted(f[i - 1], s[i], Less)
  IN f[Len(s)]

SumSeq(s, F(_)) ==
  LET f[i \in 0..Len(s)] == IF i = 0 THEN 0 ELSE f[i - 1] + F(s[i])
  IN f[Len(s)]

\* the rows of the items table, in rowid order
RowOf(itemId) == CHOOSE r \in Range(items) : r.item_id = itemId
\* a table without the primary key on item_id
HasRowNever(rows, itemId) == FALSE

\* item_id is the PRIMARY KEY of the items table: a row with this id exists
HasRow(rows, itemId) == \E r \in Range(rows) : r.item_id = itemId

----------------------------------------------------------------------------
(* MaximalRectangleBinPack *)

NewBinPack(width, height, depth) ==
  [width |-> width, height |-> height, depth |-> depth,
   used_rectangles |-> <<>>,
   free_rectangles |-> << [x |-> 0, y |-> 0, z |-> 0,
                           width |-> width, height |-> height, depth |-> depth] >>]

\* score_by_priority, times ten
score_by_priority(rect, priority) ==
  5 * rect.z + 3 * rect.x + 2 * rect.y - priority

\* a fit test that leaves out the height
RectFitsWidthDepth(free_rect, item_width, item_height, item_depth) ==
  /\ free_rect.width >= item_width
  /\ free_rect.depth >= item_depth

RectFits(free_rect, item_width, item_height, item_depth) ==
  /\ free_rect.width >= item_width
  /\ free_rect.height >= item_height
  /\ free_rect.depth >= item_depth

\* index of the first free rectangle of minimal score that fits, 0 if none
BestFreeIndex(free, item_width, item_height, item_depth, priority) ==
  LET cand == {i \in DOMAIN free : RectFits(free[i], item_width, item_height, item_depth)}
  IN IF cand = {} THEN 0
     ELSE CHOOSE i \in cand : \A j \in cand :
            \/ score_by_priority(free[i], priority) < score_by_priority(free[j], priority)
            \/ /\ score_by_priority(free[i], priority) = score_by_priority(free[j], priority)
               /\ i <= j

\* a split whose third residual starts at the depth of the item, not behind it
SplitResidualsSameDepth(best_rect, item_width, item_height, item_depth) ==
  LET remaining_width == best_rect.width - item_width
      remaining_height == best_rect.height - item_height
      remaining_depth == best_rect.depth - item_depth
  IN IF remaining_width > 0 /\ remaining_height > 0 /\ remaining_depth > 0
     THEN << [x |-> best_rect.x + item_width, y |-> best_rect.y, z |-> best_rect.z,
              width |-> remaining_width, height |-> item_height, depth |-> item_depth],
             [x |-> best_rect.x, y |-> best_rect.y + item_height, z |-> best_rect.z,
              width |-> best_rect.width, height |-> remaining_height, depth |-> item_depth],
             [x |-> best_rect.x, y |-> best_rect.y, z |-> best_rect.z,
              width |-> best_rect.width, height |-> best_rect.height,
              depth |-> remaining_depth] >>
     ELSE <<>>

\* the guillotine split: residuals appended only when all three remainders
\* are positive
SplitResiduals(best_rect, item_width, item_height, item_depth) ==
  LET remaining_width == best_rect.width - item_width
      remaining_height == best_rect.height - item_height
      remaining_depth == best_rect.depth - item_depth
  IN IF remaining_width > 0 /\ remaining_height > 0 /\ remaining_depth > 0
     THEN << [x |-> best_rect.x + item_width, y |-> best_rect.y, z |-> best_rect.z,
              width |-> remaining_width, height |-> item_height, depth |-> item_depth],
             [x |-> best_rect.x, y |-> best_rect.y + item_height, z |-> best_rect.z,
              width |-> best_rect.width, height |-> remaining_height, depth |-> item_depth],
             [x |-> best_rect.x, y |-> best_rect.y, z |-> best_rect.z + item_depth,
              width |-> best_rect.width, height |-> best_rect.height,
              depth |-> remaining_depth] >>
     ELSE <<>>

\* insert: [found, rect, bp] - the rectangle committed and the packer after
insert(bp, item_width, item_height, item_depth, priority) ==
  LET best_free_index == BestFreeIndex(bp.free_rectangles, item_width, item_height,
                                       item_depth, priority)
  IN IF best_free_index = 0
     THEN [found |-> FALSE, bp |-> bp]
     ELSE LET best_rect == bp.free_rectangles[best_free_index]
              new_rect == [x |-> best_rect.x, y |-> best_rect.y, z |-> best_rect.z,
                           width |-> item_width, height |-> item_height,
                           depth |-> item_depth]
          IN [found |-> TRUE, rect |-> new_rect,
              bp |-> [bp EXCEPT
                       !.used_rectangles = Append(@, new_rect),
                       !.free_rectangles =
                          RemoveAt(@ \o SplitResiduals(best_rect, item_width,
                                                       item_height, item_depth),
                                   best_free_index)]]

----------------------------------------------------------------------------
(* POST /api/placement *)

\* a rotation list that holds the item's own orientation only
RotationsUnrotated(item) ==
  [r \in 1..6 |-> <<item.width, item.height, item.depth>>]

\* the six rotations tried in order, as (width, height, depth) for insert
Rotations(item) ==
  << <<item.width, item.height, item.depth>>,
     <<item.width, item.depth, item.height>>,
     <<item.height, item.width, item.depth>>,
     <<item.height, item.depth, item.width>>,
     <<item.depth, item.width, item.height>>,
     <<item.depth, item.height, item.width>> >>

\* sorted(request.items, key = (-priority, width*height*depth)), stable
SortKeyLess(a, b) ==
  \/ a.priority > b.priority
  \/ /\ a.priority = b.priority
     /\ a.width * a.height * a.depth < b.width * b.height * b.depth

SortedItems(reqItems) == StableSort(reqItems, SortKeyLess)

\* the containers in request order, whatever their zone
ContainerOrderInput(reqContainers, item) == reqContainers

\* preferred_containers + other_containers
ContainerOrder(reqContainers, item) ==
  LET InZone(c) == c.zone = item.preferredZone
      OffZone(c) == c.zone # item.preferredZone
  IN SelectRows(reqContainers, InZone) \o SelectRows(reqContainers, OffZone)

\* first rotation (from index r on) that the packer accepts
RECURSIVE TryRotations(_, _, _)
TryRotations(bp, item, r) ==
  IF r > 6 THEN [found |-> FALSE, bp |-> bp]
  ELSE LET rot == Rotations(item)[r]
           res == insert(bp, rot[1], rot[2], rot[3], item.priority)
       IN IF res.found THEN res ELSE TryRotations(bp, item, r + 1)

\* first container of the order that accepts the item
RECURSIVE TryContainers(_, _, _)
TryContainers(packers, order, item) ==
  IF order = <<>> THEN [found |-> FALSE]
  ELSE LET cid == Head(order).containerId
           res == TryRotations(packers[cid], item, 1)
       IN IF res.found
          THEN [found |-> TRUE, containerId |-> cid, rect |-> res.rect, bp |-> res.bp]
          ELSE TryContainers(packers, Tail(order), item)

PlacementEntry(item, cid, rect) ==
  [itemId |-> item.itemId, containerId |-> cid,
   sw |-> rect.x, sd |-> rect.z, sh |-> rect.y,
   ew |-> rect.x + rect.width, ed |-> rect.z + rect.depth, eh |-> rect.y + rect.height]

\* the row written by INSERT INTO items
NewRow(item, cid, rect) ==
  [item_id |-> item.itemId, name |-> item.name, width |-> item.width,
   depth |-> item.depth, height |-> item.height, mass |-> item.mass,
   priority |-> item.priority, expiry_date |-> item.expiryDate,
   usage_limit |-> item.usageLimit, remaining_uses |-> item.usageLimit,
   preferred_zone |-> item.preferredZone, container_id |-> cid,
   position_start_width |-> rect.x, position_start_depth |-> rect.z,
   position_start_height |-> rect.y,
   position_end_width |-> rect.x + rect.width,
   position_end_depth |-> rect.z + rect.depth,
   position_end_height |-> rect.y + rect.height,
   is_waste |-> FALSE]

InitialPackers(reqContainers) ==
  [cid \in {c.containerId : c \in Range(reqContainers)} |->
     LET c == CHOOSE c \in Range(reqContainers) : c.containerId = cid
     IN NewBinPack(c.width, c.height, c.depth)]

\* The packers are built afresh by every call and never read the items
\* table, so the packer's decisions of one call depend on the request only.
\* PackLoop is the loop over sorted_items as far as the packers go: the
\* sequence of [item, containerId, rect] of the items some container
\* accepted, in sorted order.  An item no container accepts is passed over.
RECURSIVE PackLoop(_, _, _)
PackLoop(sorted, reqContainers, packers) ==
  IF sorted = <<>> THEN <<>>
  ELSE LET item == Head(sorted)
           res == TryContainers(packers, ContainerOrder(reqContainers, item), item)
       IN IF ~res.found
          THEN PackLoop(Tail(sorted), reqContainers, packers)
          ELSE <<[item |-> item, containerId |-> res.containerId, rect |-> res.rect]>>
               \o PackLoop(Tail(sorted), reqContainers,
                           [packers EXCEPT ![res.containerId] = res.bp])

PackPlan ==
  [reqItems \in ItemBatches \cup WideBatches \cup TallBatches |->
     [reqContainers \in ContainerLists \cup WideContainerLists |->
        PackLoop(SortedItems(reqItems), reqContainers, InitialPackers(reqContainers))]]

\* The loop over sorted_items as far as the store goes: each accepted item
\* is appended to placements and INSERTed.  INSERT of an item_id that is
\* already a row violates the primary key: the exception leaves the loop and
\* the handler answers 500; the rows inserted before it stay in the store.
RECURSIVE CommitLoop(_, _, _)
CommitLoop(plan, rows, placements) ==
  IF plan = <<>>
  THEN [status |-> "ok", rows |-> rows, placements |-> placements,
        rearrangements |-> <<>>]
  ELSE LET p == Head(plan)
       IN IF HasRow(rows, p.item.itemId)
          THEN [status |-> "error", rows |-> rows,
                placements |-> <<>>, rearrangements |-> <<>>]
          ELSE CommitLoop(Tail(plan),
                          Append(rows, NewRow(p.item, p.containerId, p.rect)),
                          Append(placements,
                                 PlacementEntry(p.item, p.containerId, p.rect)))

\* [status, rows, placements, rearrangements]
placement_recommendations(rows, reqItems, reqContainers) ==
  CommitLoop(PackPlan[reqItems][reqContainers], rows, <<>>)

Placement ==
  \E reqItems \in ItemBatches, reqContainers \in ContainerLists :
     /\ containers' = containers \cup {c.containerId : c \in Range(reqContainers)}
     /\ items' = placement_recommendations(items, reqItems, reqContainers).rows
     /\ UNCHANGED today

----------------------------------------------------------------------------
(* Helper functions over the items table *)

UpdateRows(rows, P(_), F(_)) ==
  [i \in DOMAIN rows |-> IF P(rows[i]) THEN F(rows[i]) ELSE rows[i]]

\* cursor.fetchone() of SELECT * FROM items WHERE <P>: <<row>> for the first
\* row in rowid order, <<>> when there is none
FetchOne(rows, P(_)) ==
  LET hits == SelectRows(rows, P)
  IN IF hits = <<>> THEN <<>> ELSE <<Head(hits)>>

\* ORDER BY position_start_depth, position_start_width, position_start_height
PositionLessWidthFirst(a, b) ==
  \/ a.position_start_depth < b.position_start_depth
  \/ /\ a.position_start_depth = b.position_start_depth
     /\ \/ a.position_start_width < b.position_start_width
        \/ /\ a.position_start_width = b.position_start_width
           /\ a.position_start_height < b.position_start_height

\* ORDER BY position_start_depth, position_start_height, position_start_width
PositionLess(a, b) ==
  \/ a.position_start_depth < b.position_start_depth
  \/ /\ a.position_start_depth = b.position_start_depth
     /\ \/ a.position_start_height < b.position_start_height
        \/ /\ a.position_start_height = b.position_start_height
           /\ a.position_start_width < b.position_start_width

get_items_in_container(rows, container_id) ==
  LET InContainer(r) == r.container_id = container_id /\ ~r.is_waste
  IN StableSort(SelectRows(rows, InContainer), PositionLess)

\* every listed item that starts at a smaller depth than the target
InFrontOf(item, target_item) ==
  item.position_start_depth < target_item.position_start_depth

calculate_retrieval_steps(rows, container_id, target_item_id) ==
  LET its == get_items_in_container(rows, container_id)
      IsTarget(r) == r.item_id = target_item_id
      target_item == FetchOne(its, IsTarget)
  IN IF target_item = <<>> THEN <<>>
     ELSE LET Blocking(r) == InFrontOf(r, target_item[1])
              blocking == SelectRows(its, Blocking)
          IN [i \in DOMAIN blocking |->
                [step |-> i, action |-> "remove", itemId |-> blocking[i].item_id,
                 itemName |-> blocking[i].name]]

check_item_expiry(rows, current_date) ==
  LET Due(r) == r.expiry_date # NULL /\ r.expiry_date <= current_date /\ ~r.is_waste
      Mark(r) == [r EXCEPT !.is_waste = TRUE]
  IN UpdateRows(rows, Due, Mark)

mark_depleted_items(rows) ==
  LET Due(r) == /\ r.usage_limit # NULL
                /\ r.remaining_uses # NULL
                /\ r.remaining_uses <= 0
                /\ ~r.is_waste
      Mark(r) == [r EXCEPT !.is_waste = TRUE]
  IN UpdateRows(rows, Due, Mark)

\* 'Expired' if expiry_date and expiry_date <= utcnow().date() else 'Out of Uses'
WasteReason(r, current_date) ==
  IF r.expiry_date # NULL /\ r.expiry_date <= current_date
  THEN "Expired" ELSE "Out of Uses"

Position(r) ==
  [sw |-> r.position_start_width, sd |-> r.position_start_depth,
   sh |-> r.position_start_height, ew |-> r.position_end_width,
   ed |-> r.position_end_depth, eh |-> r.position_end_height]

----------------------------------------------------------------------------
(* GET /api/search *)

\* By itemId when given, else by name LIKE %itemName% (the names of the
\* catalogue do not contain one another, so LIKE matches the equal name).
\* The handler answers 500 when the item is not found (the response built
\* without retrievalSteps fails validation) and when the item's container is
\* not a row of the containers table (the zone is read from no row).
search_item(rows, known, itemId, itemName) ==
  LET ById(r) == r.item_id = itemId
      ByName(r) == r.name = itemName
      hit == IF itemId # EMPTY THEN FetchOne(rows, ById) ELSE FetchOne(rows, ByName)
      item == hit[1]
  IN IF hit = <<>>
     THEN [status |-> "error", found |-> FALSE, retrievalSteps |-> <<>>]
     ELSE IF item.container_id # EMPTY /\ item.container_id \notin known
     THEN [status |-> "error", found |-> TRUE, retrievalSteps |-> <<>>]
     ELSE [status |-> "ok", found |-> TRUE, itemId |-> item.item_id,
           containerId |-> item.container_id, position |-> Position(item),
           retrievalSteps |->
              IF item.container_id # EMPTY
              THEN calculate_retrieval_steps(rows, item.container_id, item.item_id)
              ELSE <<>>]

\* read-only
Search ==
  /\ \/ \E itemId \in ItemIds :
          search_item(items, containers, itemId, EMPTY).status \in {"ok", "error"}
     \/ \E itemName \in ItemNames :
          search_item(items, containers, EMPTY, itemName).status \in {"ok", "error"}
  /\ UNCHANGED vars

----------------------------------------------------------------------------
(* POST /api/retrieve *)

\* remaining_uses - 1 when remaining_uses is set
UseOnce(r) ==
  IF r.remaining_uses # NULL
  THEN [r EXCEPT !.remaining_uses = r.remaining_uses - 1]
  ELSE r

\* the model stops applying uses to a row at -MaxOveruse
UsesInBound(rows) ==
  \A r \in Range(rows) : r.remaining_uses # NULL => r.remaining_uses >= -MaxOveruse

\* [status, rows]; 404 (answered as 500) when the item is not found
retrieve_item(rows, itemId) ==
  LET ById(r) == r.item_id = itemId
  IN IF FetchOne(rows, ById) = <<>>
     THEN [status |-> "error", rows |-> rows]
     ELSE [status |-> "ok", rows |-> UpdateRows(rows, ById, UseOnce)]

Retrieve ==
  \E itemId \in ItemIds :
     /\ items' = retrieve_item(items, itemId).rows
     /\ UsesInBound(items')
     /\ UNCHANGED <<containers, today>>

----------------------------------------------------------------------------
(* POST /api/place *)

\* an UPDATE that also resets is_waste of the row it moves
place_item_ClearsWaste(rows, itemId, containerId, position) ==
  [status |-> "ok",
   rows |-> [i \in DOMAIN rows |->
               IF rows[i].item_id = itemId
               THEN [rows[i] EXCEPT !.container_id = containerId,
                                    !.position_start_width = position.sw,
                                    !.position_start_depth = position.sd,
                                    !.position_start_height = position.sh,
                                    !.position_end_width = position.ew,
                                    !.position_end_depth = position.ed,
                                    !.position_end_height = position.eh,
                                    !.is_waste = FALSE]
               ELSE rows[i]]]

\* UPDATE items SET container_id, position_* WHERE item_id: [status, rows].
\* Neither the container's extents nor the other rows are read.
place_item(rows, itemId, containerId, position) ==
  LET ById(r) == r.item_id = itemId
      Move(r) == [r EXCEPT !.container_id = containerId,
                           !.position_start_width = position.sw,
                           !.position_start_depth = position.sd,
                           !.position_start_height = position.sh,
                           !.position_end_width = position.ew,
                           !.position_end_depth = position.ed,
                           !.position_end_height = position.eh]
  IN [status |-> "ok", rows |-> UpdateRows(rows, ById, Move)]

\* the requests offered: the box of a catalogue item, unrotated, at one of
\* PlaceStarts in a container of the catalogue
PlaceRequests ==
  {[itemId |-> it.itemId, containerId |-> cid,
    position |-> [sw |-> st[1], sd |-> st[2], sh |-> st[3],
                  ew |-> st[1] + it.width, ed |-> st[2] + it.depth,
                  eh |-> st[3] + it.height]] :
     it \in Range(ItemCatalogue), cid \in ContainerIds, st \in PlaceStarts}

Place ==
  \E q \in PlaceRequests :
     /\ items' = place_item(items, q.itemId, q.containerId, q.position).rows
     /\ UNCHANGED <<containers, today>>

----------------------------------------------------------------------------
(* GET /api/waste/identify *)

\* [status, rows, wasteItems]
identify_waste(rows, current_date) ==
  LET marked == mark_depleted_items(check_item_expiry(rows, current_date))
      IsWaste(r) == r.is_waste
      waste_items == SelectRows(marked, IsWaste)
  IN [status |-> "ok", rows |-> marked,
      wasteItems |-> [i \in DOMAIN waste_items |->
                        [itemId |-> waste_items[i].item_id,
                         reason |-> WasteReason(waste_items[i], current_date),
                         containerId |-> waste_items[i].container_id]]]

IdentifyWaste ==
  /\ items' = identify_waste(items, today).rows
  /\ UNCHANGED <<containers, today>>

----------------------------------------------------------------------------
(* POST /api/waste/return-plan *)

\* ORDER BY mass DESC
MassGreater(a, b) == a.mass > b.mass

\* a walk that compares the item's mass alone with maxWeight
WithinWeightItemOnly(total_weight, mass, maxWeight) == ~(mass > maxWeight)

\* the guard of the walk: the item is skipped when total_weight + mass > maxWeight
WithinWeight(total_weight, mass, maxWeight) == ~(total_weight + mass > maxWeight)

\* a walk that ends at the first item that does not fit (break for continue)
IncludedItemsStopAtSkip(waste_items, maxWeight) ==
  LET f[i \in 0..Len(waste_items)] ==
        IF i = 0 THEN [total_weight |-> 0, included |-> <<>>, stopped |-> FALSE]
        ELSE IF f[i - 1].stopped THEN f[i - 1]
        ELSE IF WithinWeight(f[i - 1].total_weight, waste_items[i].mass, maxWeight)
             THEN [total_weight |-> f[i - 1].total_weight + waste_items[i].mass,
                   included |-> Append(f[i - 1].included, waste_items[i]),
                   stopped |-> FALSE]
             ELSE [f[i - 1] EXCEPT !.stopped = TRUE]
      last == f[Len(waste_items)]
  IN [total_weight |-> last.total_weight, included |-> last.included]

\* the walk over waste_items: [total_weight, included], the rows included in
\* inclusion order
IncludedItems(waste_items, maxWeight) ==
  LET f[i \in 0..Len(waste_items)] ==
        IF i = 0 THEN [total_weight |-> 0, included |-> <<>>]
        ELSE IF WithinWeight(f[i - 1].total_weight, waste_items[i].mass, maxWeight)
             THEN [total_weight |-> f[i - 1].total_weight + waste_items[i].mass,
                   included |-> Append(f[i - 1].included, waste_items[i])]
             ELSE f[i - 1]
  IN f[Len(waste_items)]

\* return_plan: one move step per included item that is in a container
ReturnPlanSteps(included) ==
  LET InAContainer(r) == r.container_id # EMPTY
      moved == SelectRows(included, InAContainer)
  IN [i \in DOMAIN moved |->
        [step |-> i, itemId |-> moved[i].item_id, fromContainer |-> moved[i].container_id]]

\* retrieval_steps: calculate_retrieval_steps of every waste item that is in
\* a container, concatenated in the order of waste_items
ReturnRetrievalSteps(rows, waste_items) ==
  LET f[i \in 0..Len(waste_items)] ==
        IF i = 0 THEN <<>>
        ELSE f[i - 1] \o
             (IF waste_items[i].container_id # EMPTY
              THEN calculate_retrieval_steps(rows, waste_items[i].container_id,
                                             waste_items[i].item_id)
              ELSE <<>>)
  IN f[Len(waste_items)]

Volume(r) == r.width * r.depth * r.height

\* the response; the handler writes nothing
waste_return_plan(rows, current_date, maxWeight) ==
  LET IsWaste(r) == r.is_waste
      waste_items == StableSort(SelectRows(rows, IsWaste), MassGreater)
      walk == IncludedItems(waste_items, maxWeight)
  IN [status |-> "ok",
      returnItems |-> [i \in DOMAIN walk.included |->
                         [itemId |-> walk.included[i].item_id,
                          reason |-> WasteReason(walk.included[i], current_date)]],
      returnPlan |-> ReturnPlanSteps(walk.included),
      retrievalSteps |-> ReturnRetrievalSteps(rows, waste_items),
      totalVolume |-> SumSeq(waste_items, Volume),
      totalWeight |-> walk.total_weight]

\* the maxWeight values offered
MaxWeights == (-1)..MaxWeight

\* read-only
ReturnPlan ==
  /\ \E maxWeight \in MaxWeights :
        waste_return_plan(items, today, maxWeight).status = "ok"
  /\ UNCHANGED vars

----------------------------------------------------------------------------
(* POST /api/waste/complete-undocking *)

\* a DELETE FROM items without the WHERE clause
complete_undocking_All(rows) ==
  [status |-> "ok", rows |-> <<>>, itemsRemoved |-> Len(rows)]

\* DELETE FROM items WHERE is_waste = 1: [status, rows, itemsRemoved]
complete_undocking(rows) ==
  LET IsWaste(r) == r.is_waste
      NotWaste(r) == ~r.is_waste
  IN [status |-> "ok", rows |-> SelectRows(rows, NotWaste),
      itemsRemoved |-> Len(SelectRows(rows, IsWaste))]

CompleteUndocking ==
  /\ items' = complete_undocking(items).rows
  /\ UNCHANGED <<containers, today>>

----------------------------------------------------------------------------
(* POST /api/simulate/day *)

\* one entry of itemsToBeUsedPerDay: {itemId} or {name}
UsageEntries ==
  {[itemId |-> i, name |-> EMPTY] : i \in ItemIds}
    \cup {[itemId |-> EMPTY, name |-> n] : n \in ItemNames}

UsageLists == UNION {[1..n -> UsageEntries] : n \in 0..MaxUsage}

\* the row an entry of the usage list selects: <<row>> or <<>>
UsageTarget(rows, entry) ==
  LET ById(r) == r.item_id = entry.itemId
      ByName(r) == r.name = entry.name
  IN IF entry.itemId # EMPTY THEN FetchOne(rows, ById) ELSE FetchOne(rows, ByName)

\* the loop over itemsToBeUsedPerDay: [rows, items_used, items_depleted]
ApplyUsage(rows, usage) ==
  LET f[i \in 0..Len(usage)] ==
        IF i = 0 THEN [rows |-> rows, items_used |-> <<>>, items_depleted |-> <<>>]
        ELSE LET hit == UsageTarget(f[i - 1].rows, usage[i])
                 item == hit[1]
                 Same(r) == r.item_id = item.item_id
             IN IF hit = <<>> THEN f[i - 1]
                ELSE [rows |-> UpdateRows(f[i - 1].rows, Same, UseOnce),
                      items_used |-> Append(f[i - 1].items_used, item.item_id),
                      items_depleted |->
                         IF item.remaining_uses # NULL /\ item.remaining_uses - 1 <= 0
                         THEN Append(f[i - 1].items_depleted, item.item_id)
                         ELSE f[i - 1].items_depleted]
  IN f[Len(usage)]

\* numOfDays = NULL stands for a missing or zero numOfDays
NewDate(current_date, numOfDays, toTimestamp) ==
  IF numOfDays # NULL THEN current_date + numOfDays ELSE toTimestamp

\* what follows the usage loop: check_item_expiry() alone, at utcnow
AfterUsage(rows, current_date) == check_item_expiry(rows, current_date)

\* [status, rows, newDate, itemsUsed, itemsExpired, itemsDepletedToday];
\* 400 (answered as 500) when neither numOfDays nor toTimestamp is given
simulate_day(rows, current_date, numOfDays, toTimestamp, usage) ==
  IF numOfDays = NULL /\ toTimestamp = NULL
  THEN [status |-> "error", rows |-> rows]
  ELSE LET new_date == NewDate(current_date, numOfDays, toTimestamp)
           used == ApplyUsage(rows, usage)
           after == AfterUsage(used.rows, current_date)
           Expired(r) == r.is_waste /\ r.expiry_date # NULL /\ r.expiry_date <= new_date
           expired_items == SelectRows(after, Expired)
       IN [status |-> "ok", rows |-> after, newDate |-> new_date,
           itemsUsed |-> used.items_used,
           itemsExpired |-> [i \in DOMAIN expired_items |-> expired_items[i].item_id],
           itemsDepletedToday |-> used.items_depleted]

NumOfDays == {NULL} \cup 1..MaxSimDays
ToTimestamps == {NULL} \cup 1..(MaxDay + 1)

Simulate ==
  \E numOfDays \in NumOfDays, toTimestamp \in ToTimestamps, usage \in UsageLists :
     /\ items' = simulate_day(items, today, numOfDays, toTimestamp, usage).rows
     /\ UsesInBound(items')
     /\ UNCHANGED <<containers, today>>

----------------------------------------------------------------------------
(* The wall clock read by datetime.utcnow() *)

Tick ==
  /\ today < MaxDay
  /\ today' = today + 1
  /\ UNCHANGED <<items, containers>>

----------------------------------------------------------------------------

Init ==
  /\ items = <<>>
  /\ containers = {}
  /\ today = 1

Next ==
  \/ Placement
  \/ Search
  \/ Retrieve
  \/ Place
  \/ IdentifyWaste
  \/ ReturnPlan
  \/ CompleteUndocking
  \/ Simulate
  \/ Tick

Spec == Init /\ [][Next]_vars

----------------------------------------------------------------------------
(* The placement, place and search handlers on the crate catalogue *)

PlacementWide ==
  \E reqItems \in WideBatches, reqContainers \in WideContainerLists :
     /\ containers' = containers \cup {c.containerId : c \in Range(reqContainers)}
     /\ items' = placement_recommendations(items, reqItems, reqContainers).rows
     /\ UNCHANGED today

\* the box of a crate, unrotated, at one of WidePlaceStarts
WidePlaceRequests ==
  {[itemId |-> it.itemId, containerId |-> cid,
    position |-> [sw |-> st[1], sd |-> st[2], sh |-> st[3],
                  ew |-> st[1] + it.width, ed |-> st[2] + it.depth,
                  eh |-> st[3] + it.height]] :
     it \in Range(WideItems), cid \in WideContainerIds, st \in WidePlaceStarts}

PlaceWide ==
  \E q \in WidePlaceRequests :
     /\ items' = place_item(items, q.itemId, q.containerId, q.position).rows
     /\ UNCHANGED <<containers, today>>

\* read-only
SearchWide ==
  /\ \E itemId \in WideItemIds :
        search_item(items, containers, itemId, EMPTY).status \in {"ok", "error"}
  /\ UNCHANGED vars

NextWide ==
  \/ PlacementWide
  \/ PlaceWide
  \/ SearchWide

SpecWide == Init /\ [][NextWide]_vars

----------------------------------------------------------------------------
(* The placement, place and search handlers on the cube-and-bar catalogue *)

PlacementTall ==
  \E reqItems \in TallBatches, reqContainers \in ContainerLists :
     /\ containers' = containers \cup {c.containerId : c \in Range(reqContainers)}
     /\ items' = placement_recommendations(items, reqItems, reqContainers).rows
     /\ UNCHANGED today

\* the box of the cube or the bar, unrotated, at one of PlaceStarts
TallPlaceRequests ==
  {[itemId |-> it.itemId, containerId |-> cid,
    position |-> [sw |-> st[1], sd |-> st[2], sh |-> st[3],
                  ew |-> st[1] + it.width, ed |-> st[2] + it.depth,
                  eh |-> st[3] + it.height]] :
     it \in Range(TallItems), cid \in ContainerIds, st \in PlaceStarts}

PlaceTall ==
  \E q \in TallPlaceRequests :
     /\ items' = place_item(items, q.itemId, q.containerId, q.position).rows
     /\ UNCHANGED <<containers, today>>

\* read-only
SearchTall ==
  /\ \E itemId \in TallItemIds :
        search_item(items, containers, itemId, EMPTY).status \in {"ok", "error"}
  /\ UNCHANGED vars

NextTall ==
  \/ PlacementTall
  \/ PlaceTall
  \/ SearchTall

SpecTall == Init /\ [][NextTall]_vars

----------------------------------------------------------------------------
(* Geometry of the stored boxes, as the specification defines it *)

\* the interiors of the boxes of rows a and b overlap
BoxesOverlap(a, b) ==
  /\ a.position_start_width < b.position_end_width
  /\ b.position_start_width < a.position_end_width
  /\ a.position_start_depth < b.position_end_depth
  /\ b.position_start_depth < a.position_end_depth
  /\ a.position_start_height < b.position_end_height
  /\ b.position_start_height < a.position_end_height

\* the projections of rows x and t on the (W, H) plane overlap
ProjectionsOverlap(x, t) ==
  /\ x.position_start_width < t.position_end_width
  /\ x.position_end_width > t.position_start_width
  /\ x.position_start_height < t.position_end_height
  /\ x.position_end_height > t.position_start_height

\* row x obstructs row t: same container, shallower, projections overlap
Obstructs(x, t) ==
  /\ x.item_id # t.item_id
  /\ x.container_id = t.container_id
  /\ x.position_start_depth < t.position_start_depth
  /\ ProjectionsOverlap(x, t)

StepItemIds(steps) == {steps[i].itemId : i \in DOMAIN steps}

----------------------------------------------------------------------------
(* Claims *)

\* C1: in every reachable state no two items stored in the same container
\* have boxes whose interiors overlap.
C1_NoOverlapInContainer ==
  \A i, j \in DOMAIN items :
     (i # j /\ items[i].container_id = items[j].container_id)
        => ~BoxesOverlap(items[i], items[j])

\* C2: every stored item that has a usage limit has
\* 0 <= remaining uses <= usage limit.
C2_RemainingUsesInRange ==
  \A r \in Range(items) :
     r.usage_limit # NULL
        => (0 <= r.remaining_uses /\ r.remaining_uses <= r.usage_limit)

\* C3: for every placement call that returns successfully, each input item
\* is in exactly one of the placements list and the unplaced (rearrangements)
\* list.
C3_EveryItemReportedOnce ==
  \A reqItems \in ItemBatches, reqContainers \in ContainerLists :
     LET out == placement_recommendations(items, reqItems, reqContainers)
         placed == {out.placements[i].itemId : i \in DOMAIN out.placements}
         unplaced == {out.rearrangements[i].itemId : i \in DOMAIN out.rearrangements}
     IN out.status = "ok"
          => \A it \in Range(reqItems) :
                (it.itemId \in placed) # (it.itemId \in unplaced)

\* C4: for every placed item X, the retrieval steps that search returns for
\* X name every item of X's container that obstructs X, waste or not.
C4_StepsNameEveryObstructor ==
  \A x \in Range(items) :
     LET res == search_item(items, containers, x.item_id, EMPTY)
     IN (x.container_id # EMPTY /\ res.status = "ok")
          => \A y \in Range(items) :
                Obstructs(y, x) => y.item_id \in StepItemIds(res.retrievalSteps)

SimulateRequests ==
  {[numOfDays |-> n, toTimestamp |-> t, usage |-> u] :
     n \in NumOfDays, t \in ToTimestamps, u \in UsageLists}

\* C6: if a simulate call advances the date to a day later than a stored
\* item's expiry date, the identify waste call that follows it lists the
\* item with reason "Expired".  (The identify call is taken on the same
\* day of the wall clock as the simulate call.)
C6_ExpiredAfterSimulate ==
  \A q \in SimulateRequests :
     LET sim == simulate_day(items, today, q.numOfDays, q.toTimestamp, q.usage)
     IN sim.status = "ok"
          => \A r \in Range(sim.rows) :
                (r.expiry_date # NULL /\ sim.newDate > r.expiry_date)
                   => \E w \in Range(identify_waste(sim.rows, today).wasteItems) :
                         w.itemId = r.item_id /\ w.reason = "Expired"

\* C7: when a simulate call applies a usage to a non-waste item and the
\* decrement brings its remaining uses to zero, the item's waste flag is set
\* in the store the call leaves.
C7_DepletedBySimulateIsWaste ==
  \A q \in SimulateRequests :
     LET sim == simulate_day(items, today, q.numOfDays, q.toTimestamp, q.usage)
     IN sim.status = "ok"
          => \A i \in DOMAIN items :
                (/\ ~items[i].is_waste
                 /\ items[i].remaining_uses # NULL
                 /\ items[i].remaining_uses > 0
                 /\ items[i].item_id \in Range(sim.itemsUsed)
                 /\ sim.rows[i].remaining_uses = 0)
                   => sim.rows[i].is_waste

\* extents (width, depth, height) of the container of the catalogue
ContainerOf(cid) == CHOOSE c \in Range(ContainerCatalogue) : c.containerId = cid

BoxInContainer(pos, c) ==
  /\ 0 <= pos.sw /\ pos.sw <= pos.ew /\ pos.ew <= c.width
  /\ 0 <= pos.sd /\ pos.sd <= pos.ed /\ pos.ed <= c.depth
  /\ 0 <= pos.sh /\ pos.sh <= pos.eh /\ pos.eh <= c.height

PositionsOverlap(p, q) ==
  /\ p.sw < q.ew /\ q.sw < p.ew
  /\ p.sd < q.ed /\ q.sd < p.ed
  /\ p.sh < q.eh /\ q.sh < p.eh

\* the request's box leaves its container or overlaps another stored item
PlaceConflict(rows, q) ==
  \/ ~BoxInContainer(q.position, ContainerOf(q.containerId))
  \/ \E r \in Range(rows) :
        /\ r.item_id # q.itemId
        /\ r.container_id = q.containerId
        /\ PositionsOverlap(Position(r), q.position)

\* C8: a manual place call for a stored item whose box is not contained in
\* the target container, or overlaps the box of another item stored there,
\* is rejected and leaves the store unchanged.
C8_ConflictingPlaceRejected ==
  \A q \in PlaceRequests :
     (HasRow(items, q.itemId) /\ PlaceConflict(items, q))
        => LET out == place_item(items, q.itemId, q.containerId, q.position)
           IN out.status # "ok" /\ out.rows = items

\* sum of the masses of the rows the manifest names
ManifestMass(rows, returnItems) ==
  LET MassOf(e) == RowOf(e.itemId).mass
  IN SumSeq(returnItems, MassOf)

WeightBoundFor(maxWeight) ==
  LET res == waste_return_plan(items, today, maxWeight)
  IN /\ ManifestMass(items, res.returnItems) <= maxWeight
     /\ res.totalWeight = ManifestMass(items, res.returnItems)

C10_ReturnStepsOfIncluded ==
  \A maxWeight \in MaxWeights :
     LET res == waste_return_plan(items, today, maxWeight)
         included == [i \in DOMAIN res.returnItems |-> RowOf(res.returnItems[i].itemId)]
     IN /\ res.retrievalSteps = ReturnRetrievalSteps(items, included)
        /\ \A t \in Range(included) :
              \A x \in Range(items) :
                 (t.container_id # EMPTY /\ ~x.is_waste /\ Obstructs(x, t))
                    => x.item_id \in StepItemIds(res.retrievalSteps)


C12_BatchSurvivesItemFailure ==
  \A reqItems \in ItemBatches, reqContainers \in ContainerLists :
     LET out == placement_recommendations(items, reqItems, reqContainers)
         plan == PackPlan[reqItems][reqContainers]
     IN /\ out.status = "ok"
        /\ \A p \in Range(plan) :
              ~HasRow(items, p.item.itemId)
                 => \E e \in Range(out.placements) : e.itemId = p.item.itemId

\* C13: once an item's waste flag is set, every step keeps it set as long as
\* the item is stored, and the item leaves the store only by commit
\* undocking.
C13_WasteFlagMonotone ==
  [][\A r \in Range(items) :
        r.is_waste
          => \/ \E r2 \in Range(items') : r2.item_id = r.item_id /\ r2.is_waste
             \/ /\ \A r2 \in Range(items') : r2.item_id # r.item_id
                /\ items' = complete_undocking(items).rows]_vars

\* C13 witness: a flagged item has been used below zero and a flagged item
\* lies at a manually placed position.
C13_Witness ==
  /\ \E r \in Range(items) :
        r.is_waste /\ r.remaining_uses # NULL /\ r.remaining_uses < 0
  /\ \E r \in Range(items) :
        /\ r.is_waste
        /\ <<r.position_start_width, r.position_start_depth,
             r.position_start_height>> \in PlaceStarts

\* C14: commit undocking deletes exactly the items whose waste flag is set,
\* returns their number, leaves every other row as it is, and no row of the
\* store it leaves has the waste flag set.
C14_UndockingDeletesExactlyWaste ==
  LET out == complete_undocking(items)
      waste == {i \in DOMAIN items : items[i].is_waste}
      kept == {i \in DOMAIN items : ~items[i].is_waste}
  IN /\ out.itemsRemoved = Cardinality(waste)
     /\ Len(out.rows) = Cardinality(kept)
     /\ \A i \in waste : \A r \in Range(out.rows) : r.item_id # items[i].item_id
     /\ \A i \in kept : items[i] \in Range(out.rows)
     /\ \A r \in Range(out.rows) : ~r.is_waste

\* C14 witness: the store holds a flagged item and an item that is not
\* flagged, and commit undocking removes one.
C14_Witness ==
  /\ \E r \in Range(items) : r.is_waste
  /\ \E r \in Range(items) : ~r.is_waste
  /\ complete_undocking(items).itemsRemoved = 1

\* C19: every item id has at most one row, and a placement call that names a
\* stored item leaves that item's row as it is and adds no second row for it.
C19_OnePlacementPerItem ==
  /\ \A i, j \in DOMAIN items : i # j => items[i].item_id # items[j].item_id
  /\ \A reqItems \in ItemBatches, reqContainers \in ContainerLists :
        LET out == placement_recommendations(items, reqItems, reqContainers)
        IN \A r \in Range(items) :
              /\ r \in Range(out.rows)
              /\ Cardinality({i \in DOMAIN out.rows :
                                out.rows[i].item_id = r.item_id}) = 1

\* C19 witness: an item is stored and a placement call names it and finds a
\* container that accepts it.
C19_Witness ==
  \E reqItems \in ItemBatches, reqContainers \in ContainerLists :
     /\ \E p \in Range(PackPlan[reqItems][reqContainers]) : HasRow(items, p.item.itemId)
     /\ placement_recommendations(items, reqItems, reqContainers).status = "error"

----------------------------------------------------------------------------
(* Plan placement on the crate catalogue *)

WideItemOf(itemId) == CHOOSE it \in Range(WideItems) : it.itemId = itemId
WideContainerOf(cid) == CHOOSE c \in Range(WideContainers) : c.containerId = cid

\* the side lengths of a returned box on (W, D, H)
Sides(e) == <<e.ew - e.sw, e.ed - e.sd, e.eh - e.sh>>

\* t holds the elements of s in some order
IsPermutationOf(t, s) ==
  \E f \in Permutations(1..3) : \A i \in 1..3 : t[i] = s[f[i]]

\* the packers of a call after its first n placements
PackersAfter(plan, reqContainers, n) ==
  LET f[i \in 0..n] ==
        IF i = 0 THEN InitialPackers(reqContainers)
        ELSE [f[i - 1] EXCEPT ![plan[i].containerId] =
                insert(@, plan[i].rect.width, plan[i].rect.height,
                       plan[i].rect.depth, plan[i].item.priority).bp]
  IN f[n]

\* some free cuboid of the packer holds the item in one of its orientations
Accepts(bp, item) ==
  \E f \in Permutations(1..3), i \in DOMAIN bp.free_rectangles :
     LET dims == <<item.width, item.height, item.depth>>
         free == bp.free_rectangles[i]
     IN /\ dims[f[1]] <= free.width
        /\ dims[f[2]] <= free.height
        /\ dims[f[3]] <= free.depth

\* the place of the i-th container of the request in the item's order:
\* those of the preferred zone first, each group in request order
OrderRank(reqContainers, item, i) ==
  IF reqContainers[i].zone = item.preferredZone THEN i ELSE Len(reqContainers) + i

\* the number of items of the batch that are processed before the item and
\* that the call places
PlacedBefore(reqItems, plan, item) ==
  LET sorted == SortedItems(reqItems)
      At(it) == CHOOSE k \in DOMAIN sorted : sorted[k] = it
  IN Cardinality({k \in DOMAIN plan : At(plan[k].item) < At(item)})

\* C15: in a batch of items of identical dimensions placed into a single
\* container, an item of strictly higher priority never has a larger start
\* depth than an item of lower priority, whatever the order of the batch.
C15_HigherPriorityNotDeeper ==
  \A reqItems \in WideBatches, reqContainers \in WideContainerLists :
     Len(reqContainers) = 1
       => LET out == placement_recommendations(items, reqItems, reqContainers)
          IN \A e1, e2 \in Range(out.placements) :
                LET i1 == WideItemOf(e1.itemId)
                    i2 == WideItemOf(e2.itemId)
                IN (/\ i1.width = i2.width /\ i1.depth = i2.depth
                    /\ i1.height = i2.height
                    /\ e1.containerId = e2.containerId
                    /\ i1.priority > i2.priority)
                     => e1.sd <= e2.sd

\* C16: an item is placed in the first container, in the order preferred
\* zone first then the others, each in request order, that accepts it in one
\* of its six orientations at the moment it is processed; so it is placed
\* outside its preferred zone only if no container of that zone accepts it.
C16_FirstAcceptingContainer ==
  \A reqItems \in WideBatches, reqContainers \in WideContainerLists :
     LET out == placement_recommendations(items, reqItems, reqContainers)
         plan == PackPlan[reqItems][reqContainers]
     IN \A k \in DOMAIN out.placements :
           LET item == WideItemOf(out.placements[k].itemId)
               packers == PackersAfter(plan, reqContainers, k - 1)
               accepting == {i \in DOMAIN reqContainers :
                               Accepts(packers[reqContainers[i].containerId], item)}
               chosen == CHOOSE i \in DOMAIN reqContainers :
                           reqContainers[i].containerId = out.placements[k].containerId
           IN /\ chosen \in accepting
              /\ \A i \in accepting :
                    OrderRank(reqContainers, item, chosen)
                      <= OrderRank(reqContainers, item, i)
              /\ reqContainers[chosen].zone # item.preferredZone
                   => \A i \in accepting : reqContainers[i].zone # item.preferredZone

\* C16 witness: W1 lies rotated in cR, the container of its preferred zone,
\* and W2, which prefers the same zone, lies at the origin of cW.
C16_Witness ==
  /\ \E r \in Range(items) :
        /\ r.item_id = "W1" /\ r.container_id = "cR"
        /\ r.position_end_width = 3 /\ r.position_end_height = 2
  /\ \E r \in Range(items) :
        /\ r.item_id = "W2" /\ r.container_id = "cW"
        /\ r.preferred_zone # WideContainerOf("cW").zone
        /\ r.position_start_width = 0 /\ r.position_start_depth = 0
        /\ r.position_start_height = 0

\* C17: every placement returned lies inside its container: on each axis
\* 0 <= start < end <= the container's extent.
C17_PlacementInsideContainer ==
  \A reqItems \in WideBatches, reqContainers \in WideContainerLists :
     LET out == placement_recommendations(items, reqItems, reqContainers)
     IN \A e \in Range(out.placements) :
           LET c == WideContainerOf(e.containerId)
           IN /\ 0 <= e.sw /\ e.sw < e.ew /\ e.ew <= c.width
              /\ 0 <= e.sd /\ e.sd < e.ed /\ e.ed <= c.depth
              /\ 0 <= e.sh /\ e.sh < e.eh /\ e.eh <= c.height

\* C17 witness: plan placement has stored a box that ends at its container's
\* extent on every axis, and a box that starts behind another and ends at
\* the back of its container.
C17_Witness ==
  /\ \E r \in Range(items) :
        LET c == WideContainerOf(r.container_id)
        IN /\ r.position_end_width = c.width
           /\ r.position_end_depth = c.depth
           /\ r.position_end_height = c.height
  /\ \E r \in Range(items) :
        /\ r.container_id = "cW"
        /\ r.position_start_depth = 1
        /\ r.position_end_depth = WideContainerOf("cW").depth

\* C18: the side lengths of every placement returned are a permutation of
\* the item's (width, depth, height), and an item that a container accepts
\* in some orientation at the moment it is processed is placed.
C18_SidesPermuteAndRotationUsed ==
  \A reqItems \in WideBatches, reqContainers \in WideContainerLists :
     LET out == placement_recommendations(items, reqItems, reqContainers)
         plan == PackPlan[reqItems][reqContainers]
     IN /\ \A e \in Range(out.placements) :
              LET item == WideItemOf(e.itemId)
              IN IsPermutationOf(Sides(e), <<item.width, item.depth, item.height>>)
        /\ out.status = "ok"
             => \A item \in Range(reqItems) :
                   LET packers == PackersAfter(plan, reqContainers,
                                               PlacedBefore(reqItems, plan, item))
                   IN (\E c \in Range(reqContainers) : Accepts(packers[c.containerId], item))
                        => \E e \in Range(out.placements) : e.itemId = item.itemId

\* C18 witness: a crate lies in cR, which holds it in no orientation but a
\* rotated one, with its width and height exchanged.
C18_Witness ==
  \E r \in Range(items) :
     /\ r.container_id = "cR"
     /\ r.width > WideContainerOf("cR").width \/ r.height > WideContainerOf("cR").height
     /\ r.position_end_width - r.position_start_width = r.height
     /\ r.position_end_height - r.position_start_height = r.width
     /\ r.position_end_depth - r.position_start_depth = r.depth
     /\ r.width # r.height

----------------------------------------------------------------------------
(* The walk of plan return *)

\* the mass of the stored item a manifest entry names
MassOf(e) == RowOf(e.itemId).mass

----------------------------------------------------------------------------
(* The free cuboids of a packer *)

\* the unit cells of a cuboid with integer corners
Cells(rect) ==
  {<<a, b, c>> : a \in rect.x..(rect.x + rect.width - 1),
                 b \in rect.y..(rect.y + rect.height - 1),
                 c \in rect.z..(rect.z + rect.depth - 1)}

CellsOfAll(rects) == UNION {Cells(rects[i]) : i \in DOMAIN rects}

\* C22: after the inserts of a call that returns placements, in every
\* container's packer the union of the free cuboids is the container's
\* volume less the union of the committed boxes.
C22_FreeCuboidsAreEmptyVolume ==
  \A reqItems \in ItemBatches, reqContainers \in ContainerLists :
     LET out == placement_recommendations(items, reqItems, reqContainers)
         plan == PackPlan[reqItems][reqContainers]
         packers == PackersAfter(plan, reqContainers, Len(out.placements))
     IN \A cid \in DOMAIN packers :
           LET bp == packers[cid]
               whole == [x |-> 0, y |-> 0, z |-> 0, width |-> bp.width,
                         height |-> bp.height, depth |-> bp.depth]
           IN CellsOfAll(bp.free_rectangles)
                = Cells(whole) \ CellsOfAll(bp.used_rectangles)


\* the free cuboid of the packer that the box was placed in: the one at the
\* box's origin
UsedFree(bp, rect) ==
  CHOOSE i \in DOMAIN bp.free_rectangles :
     /\ bp.free_rectangles[i].x = rect.x
     /\ bp.free_rectangles[i].y = rect.y
     /\ bp.free_rectangles[i].z = rect.z

\* the free cuboid holds the item in one of its six orientations
FreeHolds(free, item) ==
  \E f \in Permutations(1..3) :
     LET dims == <<item.width, item.height, item.depth>>
     IN /\ dims[f[1]] <= free.width
        /\ dims[f[2]] <= free.height
        /\ dims[f[3]] <= free.depth

\* the k-th placement of the plan uses a free cuboid of minimal score among
\* those of its container that hold the item in some orientation
MinimalScoreUsed(plan, reqContainers, k) ==
  LET p == plan[k]
      bp == PackersAfter(plan, reqContainers, k - 1)[p.containerId]
      used == bp.free_rectangles[UsedFree(bp, p.rect)]
  IN \A i \in DOMAIN bp.free_rectangles :
        FreeHolds(bp.free_rectangles[i], p.item)
          => score_by_priority(used, p.item.priority)
               <= score_by_priority(bp.free_rectangles[i], p.item.priority)

\* C23: the free cuboid in which the packer places an item has the minimum
\* score among all free cuboids of that container that hold the item in at
\* least one of its six orientations.
C23_MinimalScoreOverAllOrientations ==
  \A reqItems \in TallBatches, reqContainers \in ContainerLists :
     LET out == placement_recommendations(items, reqItems, reqContainers)
         plan == PackPlan[reqItems][reqContainers]
     IN \A k \in DOMAIN out.placements : MinimalScoreUsed(plan, reqContainers, k)


\* C24: within one plan placement call no two boxes committed to the same
\* container have interiors that overlap, for every batch and every order.
C24_NoOverlapWithinCall ==
  \A reqItems \in WideBatches, reqContainers \in WideContainerLists :
     LET out == placement_recommendations(items, reqItems, reqContainers)
     IN \A i, j \in DOMAIN out.placements :
           (i < j /\ out.placements[i].containerId = out.placements[j].containerId)
              => ~PositionsOverlap(out.placements[i], out.placements[j])

\* C24 witness: the store holds the three crates as one call placed them in
\* cW: at the origin, behind it, and beside it.
C24_Witness ==
  /\ Len(items) = 3
  /\ \A i \in DOMAIN items : items[i].container_id = "cW"
  /\ Position(items[1]) = [sw |-> 0, sd |-> 0, sh |-> 0, ew |-> 2, ed |-> 1, eh |-> 3]
  /\ Position(items[2]) = [sw |-> 0, sd |-> 1, sh |-> 0, ew |-> 2, ed |-> 2, eh |-> 3]
  /\ Position(items[3]) = [sw |-> 2, sd |-> 0, sh |-> 0, ew |-> 4, ed |-> 1, eh |-> 3]


\* C25: a simulate call leaves the remaining uses of every item whose waste
\* flag is set unchanged, whatever its usage list names.
C25_UsageSparesWaste ==
  \A q \in SimulateRequests :
     LET sim == simulate_day(items, today, q.numOfDays, q.toTimestamp, q.usage)
     IN sim.status = "ok"
          => \A i \in DOMAIN items :
                items[i].is_waste
                  => sim.rows[i].remaining_uses = items[i].remaining_uses

====
